---- MODULE Spec2Model ----
(***************************************************************************)
(* Model of the feature-flag microservice (src/app.py): the process-wide   *)
(* FLAGS mapping, the FEATURE_FLAG_DEFAULT_MODE environment variable, and   *)
(* one action per Flask view function, plus the router's own answers.      *)
(*                                                                         *)
(* Text is a sequence of one-character strings, so that str(), lower() and *)
(* strip() are computed and not assumed.  A JSON value is a record         *)
(* [t |-> type tag, s |-> text]: for a string s is its content, for every  *)
(* other type s is its JSON text.                                          *)
(*                                                                         *)
(* Every view function touches FLAGS at most once after working on         *)
(* request-local data (one dict store, or dict reads with no delete        *)
(* anywhere), so a handler is one atomic step and the interleavings of     *)
(* concurrently handled requests are the sequences of these steps.         *)
(***************************************************************************)
EXTENDS Integers, Sequences, FiniteSets, TLC

VARIABLES FLAGS, environ, req, resp

vars == <<FLAGS, environ, req, resp>>

(* ------------------------------ bounds -------------------------------- *)

\* Blank characters put on each side of a padded input string: 0..MaxPad.
MaxPad == 1

(* ------------------------------- text --------------------------------- *)

S_test == <<"t", "e", "s", "t">>
S_production == <<"p", "r", "o", "d", "u", "c", "t", "i", "o", "n">>
S_Production == <<"P", "r", "o", "d", "u", "c", "t", "i", "o", "n">>
S_TEST == <<"T", "E", "S", "T">>
S_prod == <<"p", "r", "o", "d">>
S_PRODUCTION_X == <<"P", "R", "O", "D", "U", "C", "T", "I", "O", "N", "_", "X">>
S_bogus == <<"b", "o", "g", "u", "s">>
S_a == <<"a">>
S_a_b == <<"a", "/", "b">>
S_x == <<"x">>
S_True == <<"T", "r", "u", "e">>
S_False == <<"F", "a", "l", "s", "e">>
S_None == <<"N", "o", "n", "e">>
S_true == <<"t", "r", "u", "e">>
S_false == <<"f", "a", "l", "s", "e">>
S_null == <<"n", "u", "l", "l">>

Whitespace == {" "}

RECURSIVE Spaces(_)
Spaces(k) == IF k = 0 THEN <<>> ELSE <<" ">> \o Spaces(k - 1)

Pad(s, k) == Spaces(k) \o s \o Spaces(k)

\* str.lower() on the alphabet of the inputs
LowerChar(c) ==
    CASE c = "T" -> "t" [] c = "E" -> "e" [] c = "S" -> "s" [] c = "P" -> "p"
      [] c = "R" -> "r" [] c = "O" -> "o" [] c = "D" -> "d" [] c = "U" -> "u"
      [] c = "C" -> "c" [] c = "I" -> "i" [] c = "N" -> "n" [] c = "X" -> "x"
      [] c = "F" -> "f"
      [] OTHER -> c

lower(s) == [i \in 1..Len(s) |-> LowerChar(s[i])]

\* str.strip(): drop the leading and the trailing whitespace
RECURSIVE lstrip(_)
lstrip(s) == IF s # <<>> /\ Head(s) \in Whitespace THEN lstrip(Tail(s)) ELSE s

RECURSIVE rstrip(_)
rstrip(s) ==
    IF s # <<>> /\ s[Len(s)] \in Whitespace
    THEN rstrip(SubSeq(s, 1, Len(s) - 1))
    ELSE s

strip(s) == rstrip(lstrip(s))

IsPrefix(p, s) == Len(p) <= Len(s) /\ SubSeq(s, 1, Len(p)) = p

(* ---------------------------- JSON values ----------------------------- *)

Str(s) == [t |-> "str", s |-> s]
JTrue == [t |-> "bool", s |-> S_true]
JFalse == [t |-> "bool", s |-> S_false]
JZero == [t |-> "num", s |-> <<"0">>]
JFive == [t |-> "num", s |-> <<"5">>]
JNull == [t |-> "null", s |-> S_null]
JEmptyArr == [t |-> "arr", s |-> <<"[", "]">>]
JArr == [t |-> "arr", s |-> <<"[", "1", "]">>]
\* a key the JSON object does not have
Missing == [t |-> "missing", s |-> <<>>]
\* Python's None
None == [t |-> "none", s |-> <<>>]

\* str(v) of the Python object a JSON value parses to
PyStr(v) ==
    CASE v.t = "str" -> v.s
      [] v.t = "bool" -> IF v = JTrue THEN S_True ELSE S_False
      [] v.t = "null" -> S_None
      [] v.t = "none" -> S_None
      [] OTHER -> v.s

\* bool(v): what `get_json(silent=True) or {}` tests
Truthy(v) ==
    CASE v.t = "str" -> v.s # <<>>
      [] v.t = "bool" -> v = JTrue
      [] v.t = "num" -> v # JZero
      [] v.t = "arr" -> v # JEmptyArr
      [] OTHER -> FALSE

(* ----------------------- constants of the service --------------------- *)

ALLOWED_MODES == {S_test, S_production}

ENVIRONMENT_FLAG_NAME ==
    <<"e", "n", "v", "i", "r", "o", "n", "m", "e", "n", "t", "_", "m", "o", "d", "e">>

(* ------------------------------ the store ----------------------------- *)

\* FLAGS = {}
EmptyFlags == [k \in {} |-> Missing]

\* mutation of Put: FLAGS.setdefault(k, v), the first write wins
Put_setdefault(flags, k, v) ==
    [x \in (DOMAIN flags) \cup {k} |-> IF x \in DOMAIN flags THEN flags[x] ELSE v]

\* mutation of Put: FLAGS = {k: v}, the other entries are dropped
Put_replace(flags, k, v) == [x \in {k} |-> v]

\* FLAGS[k] = v
Put(flags, k, v) ==
    [x \in (DOMAIN flags) \cup {k} |-> IF x = k THEN v ELSE flags[x]]

\* FLAGS.get(k, default)
Get(flags, k, default) == IF k \in DOMAIN flags THEN flags[k] ELSE default

\* os.environ.get("FEATURE_FLAG_DEFAULT_MODE", "test"): None when unset
EnvironGet(env, default) == IF env = None THEN default ELSE env.s

_get_default_mode(env) ==
    LET env_mode == lower(EnvironGet(env, S_test))
    IN  IF env_mode \in ALLOWED_MODES THEN env_mode ELSE S_test

_initialize_flags(flags, env) ==
    Put(flags, ENVIRONMENT_FLAG_NAME, Str(_get_default_mode(env)))

(* ----------------------------- responses ------------------------------ *)

\* A message is the sequence of its phrases; a flag name inside a message
\* is spelled by its characters.
Mentions(msg, w) == \E i \in DOMAIN msg : msg[i] = w

MsgExpectedFlags ==
    <<"expected JSON body with '", "name", "' and '", "value", "' fields">>
MsgName == <<"flag '", "name", "' must be a non-empty string">>
MsgValue == <<"flag '", "value", "' must be provided">>
MsgEnvironmentMode ==
    <<"invalid mode", "; ", "environment_mode", " must be 'test' or 'production'">>
MsgExpectedMode == <<"expected JSON body with a '", "mode", "' field">>
MsgInvalidMode == <<"invalid mode", "; must be 'test' or 'production'">>
MsgEndpoint == <<"endpoint not found">>
MsgFlagNotFound(name) == <<"flag '">> \o name \o <<"' ", "not found">>

\* jsonify({...}), status: json says the body is the JSON object built from
\* the other fields; a field the object lacks is Missing (name: <<>>).
Response(status, st, message, name, value, mode, flags) ==
    [status |-> status, json |-> TRUE, st |-> st, message |-> message,
     name |-> name, value |-> value, mode |-> mode, flags |-> flags]

Error(status, message) ==
    Response(status, "error", message, <<>>, Missing, Missing, EmptyFlags)

\* the framework's own HTML error page (405, 500): no JSON body
HtmlError(status) ==
    [status |-> status, json |-> FALSE, st |-> "", message |-> <<>>,
     name |-> <<>>, value |-> Missing, mode |-> Missing, flags |-> EmptyFlags]

NoResponse == HtmlError(0)

(* ------------------------------ requests ------------------------------ *)

P_health == <<"/", "h", "e", "a", "l", "t", "h">>
P_flags == <<"/", "f", "l", "a", "g", "s">>
P_mode == <<"/", "m", "o", "d", "e">>
P_nope == <<"/", "n", "o", "p", "e">>
P_flag(name) == P_flags \o <<"/">> \o name

\* The body as the handler sees it: is_json is request.is_json (the content
\* type), parsed tells what get_json(silent=True) returns: "none" (None: no
\* body or unparsable), "value" (doc, a JSON value that is no object) or
\* "object" (the name, value and mode members, Missing when absent).
Body(is_json, parsed, doc, name, value, mode) ==
    [is_json |-> is_json, parsed |-> parsed, doc |-> doc,
     name |-> name, value |-> value, mode |-> mode]

NoBody == Body(FALSE, "none", Missing, Missing, Missing, Missing)
NotJsonBody == Body(FALSE, "value", Str(S_x), Missing, Missing, Missing)
BadJsonBody == Body(TRUE, "none", Missing, Missing, Missing, Missing)
ValueBody(doc) == Body(TRUE, "value", doc, Missing, Missing, Missing)
ObjectBody(name, value, mode) == Body(TRUE, "object", Missing, name, value, mode)

Request(method, path, body) == [method |-> method, path |-> path, body |-> body]

\* a step that is no HTTP request (start, os.environ write, _initialize_flags)
Internal(what) == Request(what, <<>>, NoBody)

(* --------------------------- view functions --------------------------- *)

\* what a view function returns and the store it leaves
Outcome(response, flags) == [resp |-> response, flags |-> flags]

\* `payload = request.get_json(silent=True) or {}`: the members the handler
\* can read; is_dict is FALSE when payload is a truthy value that is no
\* object, on which payload.get raises AttributeError.
Payload(body) ==
    IF body.parsed = "object"
    THEN [is_dict |-> TRUE, name |-> body.name, value |-> body.value,
          mode |-> body.mode]
    ELSE [is_dict |-> ~(body.parsed = "value" /\ Truthy(body.doc)),
          name |-> Missing, value |-> Missing, mode |-> Missing]

\* payload.get(key, default) on a member: JSON null is Python's None
PayloadGet(member, default) ==
    CASE member = Missing -> default
      [] member = JNull -> None
      [] OTHER -> member

\* mutation of IsNone: `if not value`, which also refuses false, 0 and ""
IsNone_falsy(value) == value = None \/ ~Truthy(value)

\* `value is None`
IsNone(value) == value = None

health(flags) ==
    Outcome(Response(200, "ok", <<>>, <<>>, Missing,
                     Get(flags, ENVIRONMENT_FLAG_NAME, Str(S_test)), EmptyFlags),
            flags)

get_all_flags(flags) ==
    Outcome(Response(200, "ok", <<>>, <<>>, Missing, Missing, flags), flags)

get_single_flag(flags, name) ==
    IF name \notin DOMAIN flags
    THEN Outcome(Error(404, MsgFlagNotFound(name)), flags)
    ELSE Outcome(Response(200, "ok", <<>>, name, flags[name], Missing, EmptyFlags),
                 flags)

\* mutation of create_or_update_flag: `value = mode_str` is left out, the
\* environment mode is stored as it was sent
create_or_update_flag_raw(flags, body) ==
    IF ~body.is_json THEN Outcome(Error(400, MsgExpectedFlags), flags)
    ELSE
    LET payload == Payload(body)
        name == strip(PyStr(PayloadGet(payload.name, Str(<<>>))))
        value == PayloadGet(payload.value, None)
        mode_str == lower(PyStr(value))
    IN  IF ~payload.is_dict THEN Outcome(HtmlError(500), flags)
        ELSE IF name = <<>> THEN Outcome(Error(400, MsgName), flags)
        ELSE IF IsNone(value) THEN Outcome(Error(400, MsgValue), flags)
        ELSE IF name = ENVIRONMENT_FLAG_NAME /\ mode_str \notin ALLOWED_MODES
        THEN Outcome(Error(400, MsgEnvironmentMode), flags)
        ELSE Outcome(Response(200, "ok", <<>>, name, value, Missing, EmptyFlags),
                     Put(flags, name, value))

create_or_update_flag(flags, body) ==
    IF ~body.is_json THEN Outcome(Error(400, MsgExpectedFlags), flags)
    ELSE
    LET payload == Payload(body)
        name == strip(PyStr(PayloadGet(payload.name, Str(<<>>))))
        value == PayloadGet(payload.value, None)
        mode_str == lower(PyStr(value))
    IN  IF ~payload.is_dict THEN Outcome(HtmlError(500), flags)
        ELSE IF name = <<>> THEN Outcome(Error(400, MsgName), flags)
        ELSE IF IsNone(value) THEN Outcome(Error(400, MsgValue), flags)
        ELSE IF name = ENVIRONMENT_FLAG_NAME
        THEN IF mode_str \notin ALLOWED_MODES
             THEN Outcome(Error(400, MsgEnvironmentMode), flags)
             ELSE Outcome(Response(200, "ok", <<>>, name, Str(mode_str),
                                   Missing, EmptyFlags),
                          Put(flags, name, Str(mode_str)))
        ELSE Outcome(Response(200, "ok", <<>>, name, value, Missing, EmptyFlags),
                     Put(flags, name, value))

\* mutation of get_mode: the mode is looked up under the key "mode"
get_mode_wrong_key(flags) ==
    Outcome(Response(200, "ok", <<>>, <<>>, Missing,
                     Get(flags, SubSeq(P_mode, 2, Len(P_mode)), Str(S_test)),
                     EmptyFlags),
            flags)

get_mode(flags) ==
    Outcome(Response(200, "ok", <<>>, <<>>, Missing,
                     Get(flags, ENVIRONMENT_FLAG_NAME, Str(S_test)), EmptyFlags),
            flags)

\* mutation of set_mode: the mode is stored before it is validated
set_mode_store_first(flags, body) ==
    IF ~body.is_json THEN Outcome(Error(400, MsgExpectedMode), flags)
    ELSE
    LET payload == Payload(body)
        mode == strip(lower(PyStr(PayloadGet(payload.mode, Str(<<>>)))))
    IN  IF ~payload.is_dict THEN Outcome(HtmlError(500), flags)
        ELSE IF mode \notin ALLOWED_MODES
        THEN Outcome(Error(400, MsgInvalidMode),
                     Put(flags, ENVIRONMENT_FLAG_NAME, Str(mode)))
        ELSE Outcome(Response(200, "ok", <<>>, <<>>, Missing, Str(mode), EmptyFlags),
                     Put(flags, ENVIRONMENT_FLAG_NAME, Str(mode)))

\* mutation of set_mode: .lower() is left out
set_mode_no_lower(flags, body) ==
    IF ~body.is_json THEN Outcome(Error(400, MsgExpectedMode), flags)
    ELSE
    LET payload == Payload(body)
        mode == strip(PyStr(PayloadGet(payload.mode, Str(<<>>))))
    IN  IF ~payload.is_dict THEN Outcome(HtmlError(500), flags)
        ELSE IF mode \notin ALLOWED_MODES
        THEN Outcome(Error(400, MsgInvalidMode), flags)
        ELSE Outcome(Response(200, "ok", <<>>, <<>>, Missing, Str(mode), EmptyFlags),
                     Put(flags, ENVIRONMENT_FLAG_NAME, Str(mode)))

set_mode(flags, body) ==
    IF ~body.is_json THEN Outcome(Error(400, MsgExpectedMode), flags)
    ELSE
    LET payload == Payload(body)
        mode == strip(lower(PyStr(PayloadGet(payload.mode, Str(<<>>)))))
    IN  IF ~payload.is_dict THEN Outcome(HtmlError(500), flags)
        ELSE IF mode \notin ALLOWED_MODES
        THEN Outcome(Error(400, MsgInvalidMode), flags)
        ELSE Outcome(Response(200, "ok", <<>>, <<>>, Missing, Str(mode), EmptyFlags),
                     Put(flags, ENVIRONMENT_FLAG_NAME, Str(mode)))

not_found(flags) == Outcome(Error(404, MsgEndpoint), flags)

(* ------------------------------ routing ------------------------------- *)

\* "/flags/<name>": the default converter takes one non-empty segment
IsFlagPath(path) ==
    /\ IsPrefix(P_flags \o <<"/">>, path)
    /\ Len(path) > Len(P_flags) + 1
    /\ \A i \in (Len(P_flags) + 2)..Len(path) : path[i] # "/"

FlagNameOf(path) == SubSeq(path, Len(P_flags) + 2, Len(path))

\* the methods the @app.route declarations give each URL rule
RouteMethods(path) ==
    CASE path = P_health -> {"GET"}
      [] path = P_flags -> {"GET", "POST"}
      [] path = P_mode -> {"GET", "POST"}
      [] IsFlagPath(path) -> {"GET"}
      [] OTHER -> {}

\* dispatch of one request: the view function of the matching rule, the
\* framework's 405 page when the path matches with another method, and the
\* 404 error handler when no rule matches the path
Dispatch(flags, r) ==
    IF RouteMethods(r.path) = {} THEN not_found(flags)
    ELSE IF r.method \notin RouteMethods(r.path) THEN Outcome(HtmlError(405), flags)
    ELSE IF r.path = P_health THEN health(flags)
    ELSE IF r.path = P_flags /\ r.method = "GET" THEN get_all_flags(flags)
    ELSE IF r.path = P_flags THEN create_or_update_flag(flags, r.body)
    ELSE IF r.path = P_mode /\ r.method = "GET" THEN get_mode(flags)
    ELSE IF r.path = P_mode THEN set_mode(flags, r.body)
    ELSE get_single_flag(flags, FlagNameOf(r.path))

(* ------------------------------- inputs ------------------------------- *)

Pads == 0..MaxPad

\* values of the "value" member of POST /flags
FlagValues ==
    {Str(Pad(S_test, k)) : k \in Pads}
        \cup {Str(S_Production), JFalse, JZero, JArr, JNull, Missing}

\* values of the "mode" member of POST /mode
ModeValues ==
    FlagValues
        \cup {Str(S_production), Str(S_TEST), Str(S_prod), Str(S_PRODUCTION_X),
              Str(<<>>), JTrue}

\* values of the "name" member of POST /flags that name a flag
FlagNames ==
    {Str(Pad(S_a, k)) : k \in Pads}
        \cup {Str(Pad(ENVIRONMENT_FLAG_NAME, k)) : k \in Pads}

\* values of the "name" member that name nothing
BlankNames == {Str(Pad(<<>>, k)) : k \in Pads} \cup {Missing}

\* bodies that are no JSON object with members
OddBodies ==
    {NoBody, NotJsonBody, BadJsonBody, ObjectBody(Missing, Missing, Missing)}
        \cup {ValueBody(d) : d \in {JArr, JEmptyArr, Str(S_x), JFive, JNull}}

FlagBodies ==
    {ObjectBody(n, v, Missing) : n \in FlagNames, v \in FlagValues}
        \cup {ObjectBody(n, v, Missing) :
                n \in BlankNames, v \in {Str(S_test), JFalse, Missing}}
        \cup {ObjectBody(Str(S_a_b), v, Missing) : v \in {JTrue, JFalse}}
        \cup OddBodies

ModeBodies == {ObjectBody(Missing, Missing, m) : m \in ModeValues} \cup OddBodies

\* names asked for with GET /flags/<name>
PathNames ==
    {Pad(S_a, k) : k \in Pads} \cup {ENVIRONMENT_FLAG_NAME, S_x}

UnknownPaths == {P_nope, P_flag(S_a_b), P_flag(<<>>)}

KnownPaths == {P_health, P_flags, P_mode, P_flag(S_a)}

\* HEAD and OPTIONS, which the framework answers by itself on every rule,
\* are not among the inputs
Methods == {"GET", "POST", "PUT", "DELETE"}

\* values of FEATURE_FLAG_DEFAULT_MODE (None: unset)
Environs == {None, Str(S_Production), Str(S_bogus)}

(* ------------------------------- actions ------------------------------ *)

Init ==
    /\ \E e \in Environs :
          /\ environ = e
          /\ FLAGS = _initialize_flags(EmptyFlags, e)
    /\ req = Internal("start")
    /\ resp = NoResponse

Handle(r) ==
    LET o == Dispatch(FLAGS, r)
    IN  /\ FLAGS' = o.flags
        /\ resp' = o.resp
        /\ req' = r
        /\ UNCHANGED environ

Health == Handle(Request("GET", P_health, NoBody))

GetAllFlags == Handle(Request("GET", P_flags, NoBody))

GetSingleFlag == \E n \in PathNames : Handle(Request("GET", P_flag(n), NoBody))

CreateOrUpdateFlag == \E b \in FlagBodies : Handle(Request("POST", P_flags, b))

GetMode == Handle(Request("GET", P_mode, NoBody))

SetMode == \E b \in ModeBodies : Handle(Request("POST", P_mode, b))

NotFound ==
    \E m \in Methods, p \in UnknownPaths :
        /\ m = "GET" \/ p = P_nope
        /\ Handle(Request(m, p, NoBody))

MethodNotAllowed ==
    \E m \in Methods, p \in KnownPaths :
        /\ m \notin RouteMethods(p)
        /\ Handle(Request(m, p, NoBody))

\* os.environ["FEATURE_FLAG_DEFAULT_MODE"] = e, or its removal
SetEnviron ==
    \E e \in Environs :
        /\ e # environ
        /\ environ' = e
        /\ req' = Internal("environ")
        /\ resp' = NoResponse
        /\ UNCHANGED FLAGS

\* a further call of _initialize_flags() (the tests' setUp)
InitializeFlags ==
    /\ FLAGS' = _initialize_flags(FLAGS, environ)
    /\ req' = Internal("_initialize_flags")
    /\ resp' = NoResponse
    /\ UNCHANGED environ

Next ==
    \/ Health
    \/ GetAllFlags
    \/ GetSingleFlag
    \/ CreateOrUpdateFlag
    \/ GetMode
    \/ SetMode
    \/ NotFound
    \/ MethodNotAllowed
    \/ SetEnviron
    \/ InitializeFlags

Spec == Init /\ [][Next]_vars

(* ------------------------- vocabulary of the claims ------------------- *)

IsHttp(r) == r.method \in Methods

IsPostFlags(r) == r.method = "POST" /\ r.path = P_flags

IsPostMode(r) == r.method = "POST" /\ r.path = P_mode

\* a JSON object was sent, as JSON
IsObject(r) == r.body.is_json /\ r.body.parsed = "object"

TestOrProduction == {Str(S_test), Str(S_production)}

\* the step just taken wrote the environment mode successfully
WroteMode ==
    \/ IsPostMode(req) /\ resp.status = 200
    \/ IsPostFlags(req) /\ resp.status = 200 /\ resp.name = ENVIRONMENT_FLAG_NAME
    \/ req = Internal("_initialize_flags")

\* the answers of the three views of the environment mode on a store
ModeView(flags) == Dispatch(flags, Request("GET", P_mode, NoBody)).resp

FlagView(flags, name) == Dispatch(flags, Request("GET", P_flag(name), NoBody)).resp

HealthView(flags) == Dispatch(flags, Request("GET", P_health, NoBody)).resp

(* -------------------------------- C1 ---------------------------------- *)

\* C1: in every reachable state, whatever FEATURE_FLAG_DEFAULT_MODE holds and
\* whatever requests were handled, the store has the key "environment_mode"
\* and its value is exactly the string "test" or the string "production".
C1_ModeAlwaysValid ==
    /\ ENVIRONMENT_FLAG_NAME \in DOMAIN FLAGS
    /\ FLAGS[ENVIRONMENT_FLAG_NAME] \in TestOrProduction

\* POST /flags with a padded reserved name and a mixed-case value went through
C1_Witness ==
    /\ IsPostFlags(req)
    /\ req.body.name = Str(Pad(ENVIRONMENT_FLAG_NAME, 1))
    /\ req.body.value = Str(S_Production)
    /\ resp.status = 200
    /\ FLAGS[ENVIRONMENT_FLAG_NAME] = Str(S_production)

(* -------------------------------- C2 ---------------------------------- *)

\* C2: for m in {"test", "production"}, a POST /mode {mode: m} answered 200
\* leaves m stored and reports it; the stored mode changes only in a step
\* that writes the environment mode successfully; and in every state GET
\* /mode, GET /flags/environment_mode and GET /health all answer 200 with
\* the stored mode, which every such GET that was handled did report.  So
\* from the POST to the next successful write the three views return m.
C2_ViewsAgreeStep ==
    /\ (IsPostMode(req') /\ IsObject(req') /\ req'.body.mode \in TestOrProduction
            /\ resp'.status = 200)
        => /\ FLAGS'[ENVIRONMENT_FLAG_NAME] = req'.body.mode
           /\ resp'.mode = req'.body.mode
    /\ ENVIRONMENT_FLAG_NAME \in DOMAIN FLAGS'
    /\ (ENVIRONMENT_FLAG_NAME \in DOMAIN FLAGS
            /\ FLAGS'[ENVIRONMENT_FLAG_NAME] # FLAGS[ENVIRONMENT_FLAG_NAME])
        => WroteMode'
    /\ ModeView(FLAGS').status = 200
    /\ ModeView(FLAGS').mode = FLAGS'[ENVIRONMENT_FLAG_NAME]
    /\ FlagView(FLAGS', ENVIRONMENT_FLAG_NAME).status = 200
    /\ FlagView(FLAGS', ENVIRONMENT_FLAG_NAME).value = FLAGS'[ENVIRONMENT_FLAG_NAME]
    /\ HealthView(FLAGS').status = 200
    /\ HealthView(FLAGS').mode = FLAGS'[ENVIRONMENT_FLAG_NAME]
    /\ (req'.method = "GET" /\ req'.path \in {P_mode, P_health})
        => resp'.mode = FLAGS'[ENVIRONMENT_FLAG_NAME]
    /\ (req'.method = "GET" /\ req'.path = P_flag(ENVIRONMENT_FLAG_NAME))
        => resp'.value = FLAGS'[ENVIRONMENT_FLAG_NAME]

C2_ViewsAgree == [][C2_ViewsAgreeStep]_vars

\* POST /mode {mode: "production"} was answered 200 over a stored "test"
\* default, and "production" is what is stored
C2_Witness ==
    /\ req = Request("POST", P_mode, ObjectBody(Missing, Missing, Str(S_production)))
    /\ resp.status = 200
    /\ resp.mode = Str(S_production)
    /\ FLAGS[ENVIRONMENT_FLAG_NAME] = Str(S_production)
    /\ _get_default_mode(environ) = S_test

(* -------------------------------- C3 ---------------------------------- *)

\* the "mode" member is a string other than "test" and "production", or absent
C3_NotAMode(r) ==
    /\ IsPostMode(r) /\ IsObject(r)
    /\ \/ r.body.mode = Missing
       \/ r.body.mode.t = "str" /\ r.body.mode.s \notin ALLOWED_MODES

\* the "mode" member is a string that is neither "test" nor "production"
\* once lowercased and stripped of surrounding whitespace, or it is absent
C3_InvalidMode(r) ==
    /\ IsPostMode(r) /\ IsObject(r)
    /\ \/ r.body.mode = Missing
       \/ r.body.mode.t = "str" /\ strip(lower(r.body.mode.s)) \notin ALLOWED_MODES

C3_Rejected ==
    /\ resp'.status = 400
    /\ resp'.json /\ resp'.st = "error"
    /\ Mentions(resp'.message, "invalid mode")
    /\ FLAGS' = FLAGS

\* C3 as stated: every mode string that is not "test" or "production" (and a
\* missing mode member) makes POST /mode answer 400 with a message
\* containing "invalid mode" and leaves the stored mode as it was.
C3_Original == [][C3_NotAMode(req') => C3_Rejected]_vars

\* C3 (amended): every mode string that, lowercased and stripped of
\* surrounding whitespace, is not "test" or "production" (and a missing mode
\* member) makes POST /mode answer 400 with a message containing "invalid
\* mode" and leaves the store as it was.
C3_InvalidModeRejected == [][C3_InvalidMode(req') => C3_Rejected]_vars

\* "PRODUCTION_X" was rejected while "production" was stored
C3_Witness ==
    /\ C3_InvalidMode(req)
    /\ req.body.mode = Str(S_PRODUCTION_X)
    /\ resp.status = 400
    /\ FLAGS[ENVIRONMENT_FLAG_NAME] = Str(S_production)

(* -------------------------------- C4 ---------------------------------- *)

\* values a flag can be given: every JSON value but null
NonNull == (FlagValues \cup ModeValues) \ {JNull, Missing}

\* POST /flags {name: n, value: v} with n a non-empty string other than
\* "environment_mode" and v not null
C4_GenericWrite(r) ==
    /\ IsPostFlags(r) /\ IsObject(r)
    /\ r.body.name.t = "str"
    /\ r.body.name.s # <<>>
    /\ r.body.name.s # ENVIRONMENT_FLAG_NAME
    /\ r.body.value \in NonNull

\* ... with n moreover free of surrounding whitespace and of "/", and still
\* not "environment_mode"
C4_PlainWrite(r) ==
    /\ C4_GenericWrite(r)
    /\ strip(r.body.name.s) = r.body.name.s
    /\ \A i \in DOMAIN r.body.name.s : r.body.name.s[i] # "/"

\* the write just answered succeeded, GET /flags/{n} now returns its value,
\* the same write again changes nothing, and a write of any v2 under n makes
\* GET /flags/{n} return v2
C4_RoundTrip ==
    LET n == req.body.name.s
        again == Dispatch(FLAGS, req)
    IN  /\ resp.status = 200
        /\ FlagView(FLAGS, n).status = 200
        /\ FlagView(FLAGS, n).value = req.body.value
        /\ again.resp.status = 200
        /\ again.flags = FLAGS
        /\ \A v2 \in NonNull :
              LET over ==
                    Dispatch(FLAGS,
                             Request("POST", P_flags, ObjectBody(Str(n), v2, Missing)))
              IN  /\ over.resp.status = 200
                  /\ FlagView(over.flags, n).status = 200
                  /\ FlagView(over.flags, n).value = v2

\* C4 as stated: for any non-empty name n other than "environment_mode" and
\* any non-null v, POST /flags {name: n, value: v} answers 200, GET /flags/{n}
\* then returns v, an overwrite with v2 makes it return v2, and an identical
\* write changes nothing.
C4_Original == C4_GenericWrite(req) => C4_RoundTrip

\* C4 (amended): the same for any non-empty name n that has no leading or
\* trailing whitespace, contains no "/" and is not "environment_mode".
C4_LastWriteWins == C4_PlainWrite(req) => C4_RoundTrip

\* "a" was written with value false over the value 0
C4_Witness ==
    /\ C4_PlainWrite(req)
    /\ req.body.name = Str(S_a)
    /\ req.body.value = JFalse
    /\ resp.status = 200
    /\ resp.value = JFalse
    /\ FLAGS[S_a] = JFalse

(* -------------------------------- C5 ---------------------------------- *)

\* the "name" member is absent, "" or made of whitespace only
C5_NoName(r) ==
    \/ r.body.name = Missing
    \/ r.body.name.t = "str" /\ \A i \in DOMAIN r.body.name.s :
                                    r.body.name.s[i] \in Whitespace

C5_BadRequest(word) ==
    /\ resp'.status = 400
    /\ resp'.json /\ resp'.st = "error"
    /\ Mentions(resp'.message, word)
    /\ FLAGS' = FLAGS

\* the value was stored under the name the response reports
C5_Stored ==
    /\ resp'.status = 200
    /\ resp'.value = req'.body.value
    /\ resp'.name \in DOMAIN FLAGS'
    /\ FLAGS'[resp'.name] = req'.body.value

C5_NameAndValueStep(names) ==
    (IsPostFlags(req') /\ IsObject(req')) =>
        /\ C5_NoName(req') => C5_BadRequest("name")
        /\ (~C5_NoName(req') /\ req'.body.value \in {Missing, JNull})
            => C5_BadRequest("value")
        /\ (~C5_NoName(req') /\ req'.body.name \in names
                /\ req'.body.value \in {JFalse, JZero})
            => C5_Stored

C5_OrdinaryNames ==
    {n \in FlagNames : strip(n.s) # ENVIRONMENT_FLAG_NAME}

C6_InitializeIsolates ==
    req = Internal("_initialize_flags") =>
        /\ FLAGS[ENVIRONMENT_FLAG_NAME] = Str(_get_default_mode(environ))
        /\ _initialize_flags(FLAGS, environ) = FLAGS
        /\ DOMAIN FLAGS = {ENVIRONMENT_FLAG_NAME}

(* -------------------------------- C7 ---------------------------------- *)

\* the six endpoints of the service
C7_IsEndpoint(r) ==
    \/ r.method = "GET" /\ r.path \in {P_health, P_flags, P_mode}
    \/ r.method = "GET" /\ IsFlagPath(r.path)
    \/ r.method = "POST" /\ r.path \in {P_flags, P_mode}

\* C7: every request whose method and path are not those of an endpoint, a
\* known path with another method included, is answered 404 with the JSON
\* {status: "error", message: "endpoint not found"} and leaves the store
\* unchanged.
C7_UnmatchedIs404 ==
    [][(IsHttp(req') /\ ~C7_IsEndpoint(req')) =>
          /\ resp' = Error(404, MsgEndpoint)
          /\ FLAGS' = FLAGS]_vars

(* -------------------------------- C8 ---------------------------------- *)

\* C8: every POST /flags and POST /mode, whatever its body, is answered 200,
\* 400 or 404; an answer other than 200 is the JSON {status: "error",
\* message: <string>} and leaves the store as it was.
C8_BadRequestHarmless ==
    [][(IsPostFlags(req') \/ IsPostMode(req')) =>
          /\ resp'.status \in {200, 400, 404}
          /\ resp'.status # 200 =>
                /\ resp'.json /\ resp'.st = "error" /\ resp'.message # <<>>
                /\ FLAGS' = FLAGS]_vars

(* -------------------------------- C9 ---------------------------------- *)

\* the entries of the store other than those of the keys in ks are unchanged
C9_OnlyChanged(ks) ==
    /\ DOMAIN FLAGS \subseteq DOMAIN FLAGS'
    /\ DOMAIN FLAGS' \subseteq (DOMAIN FLAGS) \cup ks
    /\ \A k \in (DOMAIN FLAGS) \ ks : FLAGS'[k] = FLAGS[k]

\* C9: a request changes at most one key and removes none: a POST /flags
\* answered 200 only the entry of the name in its response, a POST /mode
\* answered 200 only the environment_mode entry, every GET and every request
\* not answered 200 nothing; so the set of names never shrinks.
C9_OneKeyPerRequest ==
    [][IsHttp(req') =>
          /\ DOMAIN FLAGS \subseteq DOMAIN FLAGS'
          /\ (IsPostFlags(req') /\ resp'.status = 200)
                => C9_OnlyChanged({resp'.name})
          /\ (IsPostMode(req') /\ resp'.status = 200)
                => C9_OnlyChanged({ENVIRONMENT_FLAG_NAME})
          /\ (req'.method = "GET" \/ resp'.status # 200) => FLAGS' = FLAGS]_vars

\* "a/b" was written while "a" and environment_mode kept their entries
C9_Witness ==
    /\ IsPostFlags(req)
    /\ resp.status = 200
    /\ resp.name = S_a_b
    /\ DOMAIN FLAGS = {ENVIRONMENT_FLAG_NAME, S_a, S_a_b}
    /\ FLAGS[S_a] = JArr
    /\ FLAGS[ENVIRONMENT_FLAG_NAME] = Str(S_production)

(* -------------------------------- C10 --------------------------------- *)

\* the answer and the store POST /flags {name: "environment_mode", value: v}
\* gives on a store, and those of POST /mode {mode: v}
ViaFlags(flags, v) ==
    Dispatch(flags,
             Request("POST", P_flags, ObjectBody(Str(ENVIRONMENT_FLAG_NAME), v, Missing)))

ViaMode(flags, v) ==
    Dispatch(flags, Request("POST", P_mode, ObjectBody(Missing, Missing, v)))

\* a string with leading or trailing whitespace
C10_Padded(v) == v.t = "str" /\ strip(v.s) # v.s

\* the step handled POST /flags {name: "environment_mode", value: v}
C10_StepViaFlags ==
    /\ IsPostFlags(req') /\ IsObject(req')
    /\ req'.body.name = Str(ENVIRONMENT_FLAG_NAME)

\* the step handled POST /mode {mode: v}
C10_StepViaMode == IsPostMode(req') /\ IsObject(req')

\* the other path, taken from the store the step started in, leaves the
\* store the step left and reports the value the step reported
C10_SameAsViaMode(v) ==
    /\ ViaMode(FLAGS, v).flags = FLAGS'
    /\ ViaMode(FLAGS, v).resp.mode = resp'.value

C10_SameAsViaFlags(v) ==
    /\ ViaFlags(FLAGS, v).flags = FLAGS'
    /\ ViaFlags(FLAGS, v).resp.value = resp'.mode

\* C10 as stated: for every JSON value v, POST /flags {name:
\* "environment_mode", value: v} answers 200 exactly when POST /mode {mode: v}
\* does, and from the same store both then leave the same store and report
\* the same value.
C10_Original ==
    [][/\ C10_StepViaFlags =>
            LET v == req'.body.value
            IN  /\ resp'.status = 200 <=> ViaMode(FLAGS, v).resp.status = 200
                /\ resp'.status = 200 => C10_SameAsViaMode(v)
       /\ C10_StepViaMode =>
            LET v == req'.body.mode
            IN  /\ resp'.status = 200 <=> ViaFlags(FLAGS, v).resp.status = 200
                /\ resp'.status = 200 => C10_SameAsViaFlags(v)]_vars

\* C10 (amended): whenever POST /flags {name: "environment_mode", value: v}
\* answers 200 so does POST /mode {mode: v}, and from the same store both
\* leave the same store and report the same value; the converse holds for
\* every v that is not a string with leading or trailing whitespace, while
\* for such a string POST /flags answers 400.
C10_WritePaths ==
    [][/\ C10_StepViaFlags =>
            LET v == req'.body.value
            IN  /\ resp'.status = 200 => ViaMode(FLAGS, v).resp.status = 200
                /\ (~C10_Padded(v) /\ ViaMode(FLAGS, v).resp.status = 200)
                      => resp'.status = 200
                /\ C10_Padded(v) => resp'.status = 400
                /\ resp'.status = 200 => C10_SameAsViaMode(v)
       /\ C10_StepViaMode =>
            LET v == req'.body.mode
            IN  /\ ViaFlags(FLAGS, v).resp.status = 200 => resp'.status = 200
                /\ (~C10_Padded(v) /\ resp'.status = 200)
                      => ViaFlags(FLAGS, v).resp.status = 200
                /\ C10_Padded(v) => ViaFlags(FLAGS, v).resp.status = 400
                /\ (resp'.status = 200 /\ ~C10_Padded(v)) => C10_SameAsViaFlags(v)]_vars

\* POST /flags stored "production" for the value "Production" over "test"
C10_Witness ==
    /\ req = Request("POST", P_flags,
                     ObjectBody(Str(ENVIRONMENT_FLAG_NAME), Str(S_Production), Missing))
    /\ resp.status = 200
    /\ resp.value = Str(S_production)
    /\ environ = Str(S_bogus)

====
